---- MODULE Spec2Model ----
(***************************************************************************)
(* Model of src/main.py: the Streamlit microlensing simulator.             *)
(*                                                                         *)
(* Numbers.  The lens x position is kept as an exact rational [num, den].  *)
(* Every other real is a fixed-point integer in units of 1/Scale           *)
(* (thousandths of an Einstein radius, thousandths of a radian,            *)
(* thousandths of a magnification).  np.sqrt, np.cos and np.sin are        *)
(* rounded to that grid, as the float versions are rounded to theirs.      *)
(*                                                                         *)
(* Script execution.  A Streamlit script run is a sequence of steps named  *)
(* after the source line about to execute (pc = "L206" ...).  A user event *)
(* arriving while a script runs takes effect at the next point where the   *)
(* script touches st.* (st.session_state access, st.button, st.spinner,    *)
(* st.success, st.rerun); the script is abandoned there and a new run      *)
(* starts.  The frame loop inside ani.save touches no st.*.                *)
(***************************************************************************)
EXTENDS Integers, Sequences, FiniteSets, TLC

\* ------------------------------------------------------------------ bounds
MaxFrames == 3        \* frame counts offered by the frame slider: 2..MaxFrames
MaxU == 60            \* separations tried on calculate_magnification, 1/Scale
MaxSep == 600         \* companion separations tried, 1/Scale
MaxFnFrames == 6      \* frame counts tried on the kinematics alone
MaxFnSpan == 8        \* transit spans tried on the kinematics alone

\* --------------------------------------------------------------- constants
Scale == 10 * 10 * 10                        \* fixed-point grid: 1.0 is Scale
RE == 1 * Scale                              \* 1.0 Einstein radius
U_FLOOR == Scale \div 100                    \* 0.01
max_planet_magnification_contribution == 1 * Scale   \* 1.0
planet_event_radius == (5 * RE) \div 10      \* 0.5 * RE
source_x == 0 * Scale
source_y == 0 * Scale

\* -------------------------------------------------------------- arithmetic
Abs(n) == IF n < 0 THEN -n ELSE n
MaxOf(a, b) == IF a >= b THEN a ELSE b

RECURSIVE GCD(_, _)
GCD(a, b) == IF b = 0 THEN a ELSE GCD(b, a % b)

\* rationals, den > 0, lowest terms
Rat(n, d) ==
    LET s == IF d < 0 THEN -1 ELSE 1
        g == GCD(Abs(n), Abs(d))
    IN  [num |-> (s * n) \div g, den |-> (s * d) \div g]
RatAdd(a, b) == Rat(a.num * b.den + b.num * a.den, a.den * b.den)
RatSub(a, b) == Rat(a.num * b.den - b.num * a.den, a.den * b.den)
RatMul(a, b) == Rat(a.num * b.num, a.den * b.den)
RatDiv(a, b) == Rat(a.num * b.den, a.den * b.num)
RatAbs(a) == [num |-> Abs(a.num), den |-> a.den]
\* a rational rounded down to the fixed-point grid
ToFixed(a) == (a.num * Scale) \div a.den

\* largest r in lo..hi with r*r <= x
RECURSIVE SqrtSearch(_, _, _)
SqrtSearch(x, lo, hi) ==
    IF lo >= hi THEN lo
    ELSE LET mid == (lo + hi + 1) \div 2
         IN  IF mid * mid <= x THEN SqrtSearch(x, mid, hi)
                               ELSE SqrtSearch(x, lo, mid - 1)
Isqrt(x) == SqrtSearch(x, 0, 46340)

\* a/b on the fixed-point grid, by long division (a >= 0, b > 0)
DivFixed(a, b) ==
    LET q0 == a \div b
        r0 == a % b
        d1 == (r0 * 10) \div b
        r1 == (r0 * 10) % b
        d2 == (r1 * 10) \div b
        r2 == (r1 * 10) % b
        d3 == (r2 * 10) \div b
    IN  q0 * Scale + d1 * 100 + d2 * 10 + d3

\* product of two fixed-point numbers
MulFixed(a, b) == (a * b) \div Scale

\* np.sqrt of a fixed-point number whose square is given in 1/Scale^2
np_sqrt_sq(x2) == Isqrt(x2)

\* np.cos, np.sin of a fixed-point angle (|angle| well below pi/2 here)
np_cos(x) ==
    LET x2 == MulFixed(x, x)
        x4 == MulFixed(x2, x2)
    IN  Scale - (x2 \div 2) + (x4 \div 24)
np_sin(x) ==
    LET x2 == MulFixed(x, x)
        x3 == MulFixed(x2, x)
        x5 == MulFixed(x3, x2)
    IN  x - (x3 \div 6) + (x5 \div 120)

\* ------------------------------------------------- calculate_magnification
\* line 21: (u**2 + 2) / (u * np.sqrt(u**2 + 4))
magnification_formula(u) ==
    DivFixed(u * u + 2 * Scale * Scale,
             u * np_sqrt_sq(u * u + 4 * Scale * Scale))

calculate_magnification_clamp_wrong(u) ==
    magnification_formula(IF u < U_FLOOR THEN 10 * U_FLOOR ELSE u)

calculate_magnification(u) ==
    magnification_formula(IF u < U_FLOOR THEN U_FLOOR ELSE u)

\* ------------------------------------------------------------- update(frame)
lens_x_current_div_by_frames(frame, total_frames, duration_units) ==
    RatAdd(RatDiv(Rat(-duration_units, 1), Rat(2, 1)),
           RatMul(RatDiv(Rat(frame, 1), Rat(total_frames, 1)),
                  Rat(duration_units, 1)))

\* line 74
lens_x_current(frame, total_frames, duration_units) ==
    RatAdd(RatDiv(Rat(-duration_units, 1), Rat(2, 1)),
           RatMul(RatDiv(Rat(frame, 1), Rat(total_frames - 1, 1)),
                  Rat(duration_units, 1)))

\* line 77
u_lens(frame, a) ==
    ToFixed(RatAbs(RatSub(
        lens_x_current(frame, a.sim_total_frames, a.sim_duration_units),
        Rat(source_x, 1))))

\* lines 81-86
planet_angle(frame, a) == frame * a.planet_orbit_speed_rad_per_frame
planet_display_x(frame, a) ==
    ToFixed(lens_x_current(frame, a.sim_total_frames, a.sim_duration_units))
    + MulFixed(a.planet_distance_re, np_cos(planet_angle(frame, a)))
planet_display_y(frame, a) ==
    MulFixed(a.planet_distance_re, np_sin(planet_angle(frame, a)))

\* line 90
u_planet_to_source(frame, a) ==
    LET dx == planet_display_x(frame, a) - source_x
        dy == planet_display_y(frame, a) - source_y
    IN  np_sqrt_sq(dx * dx + dy * dy)

additional_magnification_linear(d) ==
    IF d < planet_event_radius
    THEN MaxOf(0, MulFixed(max_planet_magnification_contribution,
                           Scale - DivFixed(d, planet_event_radius)))
    ELSE 0

\* lines 94-109
additional_magnification(d) ==
    IF d < planet_event_radius
    THEN LET ratio == DivFixed(d, planet_event_radius)
             factor == Scale - MulFixed(ratio, ratio)
         IN  MaxOf(0, MulFixed(max_planet_magnification_contribution, factor))
    ELSE 0

current_magnification_base_only(frame, a) ==
    calculate_magnification(u_lens(frame, a))

\* line 112
current_magnification(frame, a) ==
    calculate_magnification(u_lens(frame, a))
    + additional_magnification(u_planet_to_source(frame, a))

\* line 116: lens_point.set_data([lens_x_current], [0])
lens_point_data(frame, a) ==
    <<lens_x_current(frame, a.sim_total_frames, a.sim_duration_units), 0>>

\* line 117: planet_point.set_data([planet_display_x], [planet_display_y])
planet_point_data(frame, a) ==
    <<planet_display_x(frame, a), planet_display_y(frame, a)>>

\* ------------------------------------------------------------------- state
VARIABLES
    animation_created,                  \* st.session_state.animation_created
    animation_path_base64,              \* st.session_state.animation_path_base64
    light_curve_data,                   \* st.session_state.light_curve_data
    sim_total_frames,                   \* the five slider values kept in
    sim_duration_units,                 \*   st.session_state
    sim_frame_interval_ms,
    planet_distance_re,
    planet_orbit_speed_rad_per_frame,
    cache,              \* argument tuples st.cache_data holds a result for
    pc,                 \* line the running script is about to execute, or "idle"
    args,               \* arguments of the running create_and_display_animation
    frame,              \* next frame ani.save will draw
    lc_times,           \* the function's local lists
    lc_magnifications,
    lens_point,         \* data of the lens and planet artists
    planet_point,
    data_url,           \* value returned by create_and_display_animation
    owner,              \* history: which start request wrote each stored list
    last_done,          \* history: what the last finished start request left
    accumulated,        \* history: samples held when the reset being handled
                        \*   took effect
    fn_in,              \* input and output of a function applied on its own
    fn_out

session == <<animation_created, animation_path_base64, light_curve_data>>
sliders == <<sim_total_frames, sim_duration_units, sim_frame_interval_ms,
             planet_distance_re, planet_orbit_speed_rad_per_frame>>
locals == <<args, frame, lc_times, lc_magnifications, lens_point, planet_point,
            data_url>>
history == <<owner, last_done, accumulated>>
fn == <<fn_in, fn_out>>
vars == <<session, sliders, cache, pc, locals, history, fn>>

None == <<>>
EmptyCurve == [time |-> <<>>, magnification |-> <<>>]
NoArgs == [sim_total_frames |-> 0, sim_duration_units |-> 0,
           sim_frame_interval_ms |-> 0, planet_distance_re |-> 0,
           planet_orbit_speed_rad_per_frame |-> 0]
NoRun == [args |-> NoArgs, light_curve_data |-> EmptyCurve]
NoOwner == [time |-> "none", magnification |-> "none"]
NoInput == [f |-> "none", a |-> 0, b |-> 0]

\* slider ranges (lines 236-276), cut down to a few values each; frame counts
\* are scaled down from 100..500 and stay >= 2
FrameChoices == 2..MaxFrames
DurationChoices == {10}
IntervalChoices == {50}
DistanceChoices == {Scale \div 10, Scale \div 2}
SpeedChoices == {Scale \div 20}

\* keyword arguments of the call at lines 213-219
CurrentArgs ==
    [sim_total_frames |-> sim_total_frames,
     sim_duration_units |-> sim_duration_units,
     sim_frame_interval_ms |-> sim_frame_interval_ms,
     planet_distance_re |-> planet_distance_re,
     planet_orbit_speed_rad_per_frame |-> planet_orbit_speed_rad_per_frame]

\* lines 144-151: the encoded GIF, a function of the arguments
DataUrl(a) == <<a>>

\* line 282
display_gate == animation_created /\ animation_path_base64 # None

\* lines 182-199: the session state after the first script run
InitSession ==
    /\ animation_created = FALSE
    /\ animation_path_base64 = None
    /\ light_curve_data = EmptyCurve
    /\ sim_total_frames = 2
    /\ sim_duration_units = 10
    /\ sim_frame_interval_ms = 50
    /\ planet_distance_re = Scale \div 2
    /\ planet_orbit_speed_rad_per_frame = Scale \div 20
    /\ cache = {}
    /\ pc = "idle"
    /\ args = NoArgs
    /\ frame = 0
    /\ lc_times = <<>>
    /\ lc_magnifications = <<>>
    /\ lens_point = <<>>
    /\ planet_point = <<>>
    /\ data_url = None
    /\ owner = NoOwner
    /\ last_done = NoRun
    /\ accumulated = EmptyCurve

Init ==
    /\ InitSession
    /\ fn_in = NoInput
    /\ fn_out = <<>>

\* ------------------------------------------------------------- user events
\* the script can be replaced by a new run when none runs or when the running
\* one is about to touch st.*
YieldPcs == {"idle", "L206", "L207", "L208", "L213", "L157", "L158", "L220",
             "L221", "L222", "L227", "L228", "L229", "L230"}
FrameLoopPcs == {"save_init", "save_frames"}

LocalsCleared ==
    /\ args' = NoArgs
    /\ frame' = 0
    /\ lc_times' = <<>>
    /\ lc_magnifications' = <<>>
    /\ lens_point' = <<>>
    /\ planet_point' = <<>>
    /\ data_url' = None

Aged(o) == IF o = "this" THEN "earlier" ELSE o

\* line 205: the start button is pressed
ClickStart ==
    /\ pc \in YieldPcs
    /\ pc' = "L206"
    /\ LocalsCleared
    /\ owner' = [time |-> Aged(owner.time),
                 magnification |-> Aged(owner.magnification)]
    /\ accumulated' = EmptyCurve
    /\ UNCHANGED <<session, sliders, cache, last_done, fn>>

\* line 226: the reset button is pressed
ClickReset ==
    /\ pc \in YieldPcs
    /\ pc' = "L227"
    /\ LocalsCleared
    /\ accumulated' = IF pc \in {"L157", "L158"}
                      THEN [time |-> lc_times,
                            magnification |-> lc_magnifications]
                      ELSE light_curve_data
    /\ last_done' = NoRun
    /\ UNCHANGED <<session, sliders, cache, owner, fn>>

\* lines 236-276: a slider is moved; the script runs through with no button
\* pressed and stores the slider's value
SliderChange ==
    /\ pc \in YieldPcs
    /\ pc' = "idle"
    /\ LocalsCleared
    /\ \/ \E v \in FrameChoices :
            /\ sim_total_frames' = v
            /\ UNCHANGED <<sim_duration_units, sim_frame_interval_ms,
                           planet_distance_re, planet_orbit_speed_rad_per_frame>>
       \/ \E v \in DurationChoices :
            /\ sim_duration_units' = v
            /\ UNCHANGED <<sim_total_frames, sim_frame_interval_ms,
                           planet_distance_re, planet_orbit_speed_rad_per_frame>>
       \/ \E v \in IntervalChoices :
            /\ sim_frame_interval_ms' = v
            /\ UNCHANGED <<sim_total_frames, sim_duration_units,
                           planet_distance_re, planet_orbit_speed_rad_per_frame>>
       \/ \E v \in DistanceChoices :
            /\ planet_distance_re' = v
            /\ UNCHANGED <<sim_total_frames, sim_duration_units,
                           sim_frame_interval_ms, planet_orbit_speed_rad_per_frame>>
       \/ \E v \in SpeedChoices :
            /\ planet_orbit_speed_rad_per_frame' = v
            /\ UNCHANGED <<sim_total_frames, sim_duration_units,
                           sim_frame_interval_ms, planet_distance_re>>
    /\ accumulated' = EmptyCurve
    /\ UNCHANGED <<session, cache, owner, last_done, fn>>

\* ------------------------------------------------------------ start handler
\* line 206
Start206 ==
    /\ pc = "L206"
    /\ animation_created' = FALSE
    /\ pc' = "L207"
    /\ UNCHANGED <<animation_path_base64, light_curve_data, sliders, cache,
                   locals, history, fn>>

\* line 207
Start207 ==
    /\ pc = "L207"
    /\ animation_path_base64' = None
    /\ pc' = "L208"
    /\ UNCHANGED <<animation_created, light_curve_data, sliders, cache,
                   locals, history, fn>>

Start208_keeps_curve ==
    /\ pc = "L208"
    /\ pc' = "L213"
    /\ UNCHANGED <<session, sliders, cache, locals, history, fn>>

\* line 208
Start208 ==
    /\ pc = "L208"
    /\ light_curve_data' = EmptyCurve
    /\ owner' = NoOwner
    /\ pc' = "L213"
    /\ UNCHANGED <<animation_created, animation_path_base64, sliders, cache,
                   locals, last_done, accumulated, fn>>

\* lines 212-219 with line 25: the arguments are in the cache, the body of
\* create_and_display_animation does not run
CallCached ==
    /\ pc = "L213"
    /\ CurrentArgs \in cache
    /\ args' = CurrentArgs
    /\ data_url' = DataUrl(CurrentArgs)
    /\ pc' = "L220"
    /\ UNCHANGED <<session, sliders, cache, frame, lc_times, lc_magnifications,
                   lens_point, planet_point, history, fn>>

\* lines 212-219, 26-137: the body runs; lines 69-70 make the lists
CallMiss ==
    /\ pc = "L213"
    /\ CurrentArgs \notin cache
    /\ args' = CurrentArgs
    /\ lc_times' = <<>>
    /\ lc_magnifications' = <<>>
    /\ frame' = 0
    /\ pc' = "save_init"
    /\ UNCHANGED <<session, sliders, cache, lens_point, planet_point, data_url,
                   history, fn>>

\* lines 72-133: one call of update(f)
Update(f) ==
    /\ lc_times' = Append(lc_times, f)
    /\ lc_magnifications' = Append(lc_magnifications, current_magnification(f, args))
    /\ lens_point' = lens_point_data(f, args)
    /\ planet_point' = planet_point_data(f, args)

\* line 144: ani.save first draws the initial frame; the animation of line 137
\* has no init_func, so that draw is update() on the first frame
InitDraw ==
    /\ pc = "save_init"
    /\ Update(0)
    /\ pc' = "save_frames"
    /\ UNCHANGED <<session, sliders, cache, args, frame, data_url, history, fn>>

\* line 144: ani.save draws frames 0 .. sim_total_frames - 1
SaveFrame ==
    /\ pc = "save_frames"
    /\ frame < args.sim_total_frames
    /\ Update(frame)
    /\ frame' = frame + 1
    /\ UNCHANGED <<session, sliders, cache, pc, args, data_url, history, fn>>

\* lines 146-154
EndSave ==
    /\ pc = "save_frames"
    /\ frame = args.sim_total_frames
    /\ data_url' = DataUrl(args)
    /\ pc' = "L157"
    /\ UNCHANGED <<session, sliders, cache, args, frame, lc_times,
                   lc_magnifications, lens_point, planet_point, history, fn>>

\* line 157
Store157 ==
    /\ pc = "L157"
    /\ light_curve_data' = [light_curve_data EXCEPT !.time = lc_times]
    /\ owner' = [owner EXCEPT !.time = "this"]
    /\ pc' = "L158"
    /\ UNCHANGED <<animation_created, animation_path_base64, sliders, cache,
                   locals, last_done, accumulated, fn>>

\* lines 158-160; the decorator of line 25 stores the returned value
Store158 ==
    /\ pc = "L158"
    /\ light_curve_data' = [light_curve_data EXCEPT !.magnification = lc_magnifications]
    /\ owner' = [owner EXCEPT !.magnification = "this"]
    /\ cache' = cache \cup {args}
    /\ pc' = "L220"
    /\ UNCHANGED <<animation_created, animation_path_base64, sliders, locals,
                   last_done, accumulated, fn>>

Start220_skips_path ==
    /\ pc = "L220"
    /\ animation_created' = TRUE
    /\ pc' = "L221"
    /\ UNCHANGED <<animation_path_base64, light_curve_data, sliders, cache,
                   locals, history, fn>>

\* line 220
Start220 ==
    /\ pc = "L220"
    /\ animation_path_base64' = data_url
    /\ pc' = "L221"
    /\ UNCHANGED <<animation_created, light_curve_data, sliders, cache, locals,
                   history, fn>>

\* line 221
Start221 ==
    /\ pc = "L221"
    /\ animation_created' = TRUE
    /\ pc' = "L222"
    /\ UNCHANGED <<animation_path_base64, light_curve_data, sliders, cache,
                   locals, history, fn>>

\* lines 222-223: st.rerun(); the rerun has no button pressed and draws the page
Start223 ==
    /\ pc = "L222"
    /\ pc' = "idle"
    /\ LocalsCleared
    /\ last_done' = [args |-> args, light_curve_data |-> light_curve_data]
    /\ UNCHANGED <<session, sliders, cache, owner, accumulated, fn>>

\* ------------------------------------------------------------ reset handler
\* line 227
Reset227 ==
    /\ pc = "L227"
    /\ animation_created' = FALSE
    /\ pc' = "L228"
    /\ UNCHANGED <<animation_path_base64, light_curve_data, sliders, cache,
                   locals, history, fn>>

\* line 228
Reset228 ==
    /\ pc = "L228"
    /\ animation_path_base64' = None
    /\ pc' = "L229"
    /\ UNCHANGED <<animation_created, light_curve_data, sliders, cache,
                   locals, history, fn>>

Reset229_keeps_curve ==
    /\ pc = "L229"
    /\ pc' = "L230"
    /\ UNCHANGED <<session, sliders, cache, locals, history, fn>>

\* line 229
Reset229 ==
    /\ pc = "L229"
    /\ light_curve_data' = EmptyCurve
    /\ owner' = NoOwner
    /\ pc' = "L230"
    /\ UNCHANGED <<animation_created, animation_path_base64, sliders, cache,
                   locals, last_done, accumulated, fn>>

\* line 230: st.rerun()
Reset230 ==
    /\ pc = "L230"
    /\ pc' = "idle"
    /\ accumulated' = EmptyCurve
    /\ UNCHANGED <<session, sliders, cache, locals, owner, last_done, fn>>

Next ==
    \/ ClickStart
    \/ ClickReset
    \/ SliderChange
    \/ Start206
    \/ Start207
    \/ Start208
    \/ CallCached
    \/ CallMiss
    \/ InitDraw
    \/ SaveFrame
    \/ EndSave
    \/ Store157
    \/ Store158
    \/ Start220
    \/ Start221
    \/ Start223
    \/ Reset227
    \/ Reset228
    \/ Reset229
    \/ Reset230

Spec == Init /\ [][Next]_vars

\* ------------------------------------------- the functions on their own
ArgsOf(n, s) ==
    [sim_total_frames |-> n, sim_duration_units |-> s,
     sim_frame_interval_ms |-> 50, planet_distance_re |-> Scale \div 2,
     planet_orbit_speed_rad_per_frame |-> Scale \div 20]

FnInputs ==
    {[f |-> "mag", a |-> u, b |-> 0] : u \in (0..MaxU) \cup {100 * k : k \in 1..MaxU}}
    \cup {[f |-> "pert", a |-> d, b |-> 0] : d \in (0..MaxSep) \cup {10 * k : k \in 0..MaxSep}}
    \cup {[f |-> "lens", a |-> n, b |-> s] : n \in 2..MaxFnFrames, s \in 5..MaxFnSpan}

FnInit ==
    /\ InitSession
    /\ fn_in \in FnInputs
    /\ fn_out = <<>>

\* calculate_magnification(u)
ApplyMagnification ==
    /\ fn_in.f = "mag"
    /\ fn_out = <<>>
    /\ fn_out' = <<calculate_magnification(fn_in.a)>>
    /\ UNCHANGED <<session, sliders, cache, pc, locals, history, fn_in>>

\* the companion's contribution of update(), lines 94-109
ApplyPerturbation ==
    /\ fn_in.f = "pert"
    /\ fn_out = <<>>
    /\ fn_out' = <<additional_magnification(fn_in.a)>>
    /\ UNCHANGED <<session, sliders, cache, pc, locals, history, fn_in>>

\* the lens positions update() draws for frames 0 .. N-1, lines 74 and 116
ApplyKinematics ==
    /\ fn_in.f = "lens"
    /\ fn_out = <<>>
    /\ fn_out' = [i \in 1..fn_in.a |->
                    lens_point_data(i - 1, ArgsOf(fn_in.a, fn_in.b))]
    /\ UNCHANGED <<session, sliders, cache, pc, locals, history, fn_in>>

FnNext ==
    \/ ApplyMagnification
    \/ ApplyPerturbation
    \/ ApplyKinematics

SpecFn == FnInit /\ [][FnNext]_vars

\* ------------------------------------------------------------------ claims
\* the body of create_and_display_animation ran and has returned
RunCompleted == pc \in {"L220", "L221", "L222"} /\ Len(lc_times) > 0

\* C1 (as stated): after a completed run with N frames the stored light curve
\* has exactly N samples and its times are 0, 1, ..., N-1.
Claim1_Original ==
    RunCompleted =>
        /\ light_curve_data.time = [i \in 1..args.sim_total_frames |-> i - 1]
        /\ Len(light_curve_data.magnification) = args.sim_total_frames

\* C2 (as stated): a start request that finishes after an earlier finished
\* start request with the same configuration, no reset in between, leaves the
\* same stored light curve as the earlier one did.
Claim2_Original ==
    (pc = "L222" /\ last_done # NoRun /\ last_done.args = args)
        => light_curve_data = last_done.light_curve_data

\* C3: a start request empties the stored light curve before any step runs,
\* the first step of its run starts from empty lists at frame 0, and when the
\* request has finished the stored light curve holds no sample written by an
\* earlier start request.
Thm3_StartGivesFreshCurve ==
    /\ pc \in {"L213", "save_init", "save_frames", "L157"}
          => light_curve_data = EmptyCurve
    /\ pc = "save_init"
          => (lc_times = <<>> /\ lc_magnifications = <<>> /\ frame = 0)
    /\ pc \in {"L220", "L221", "L222"}
          => (owner.time # "earlier" /\ owner.magnification # "earlier")

\* a second start request, run after an earlier one finished, has stored its own
\* samples
Wit3_SecondRunStored ==
    /\ pc = "L222"
    /\ last_done # NoRun
    /\ last_done.light_curve_data # EmptyCurve
    /\ owner.time = "this"
    /\ Len(light_curve_data.time) > 0

\* C5: for u < 0.01 the result is the formula at 0.01, for u >= 0.01 the
\* formula at u itself.
Thm5_MagnificationFloor ==
    (fn_in.f = "mag" /\ fn_out # <<>>) =>
        fn_out[1] = IF fn_in.a < Scale \div 100
                    THEN magnification_formula(Scale \div 100)
                    ELSE magnification_formula(fn_in.a)

Wit5_Clamped == fn_in.f = "mag" /\ fn_in.a = 0 /\ fn_out # <<>>

\* C6: the companion's contribution is 0 for d >= R, P at d = 0,
\* P * (1 - (d/R)^2) for 0 <= d < R, and never negative (R = 0.5, P = 1.0).
Thm6_Perturbation ==
    (fn_in.f = "pert" /\ fn_out # <<>>) =>
        LET d == fn_in.a
            c == fn_out[1]
            R == Scale \div 2
            P == Scale
        IN  /\ d >= R => c = 0
            /\ d = 0 => c = P
            /\ d < R => c = P - ((P * d * d) \div (R * R))
            /\ c >= 0

Wit6_InsideRadius ==
    fn_in.f = "pert" /\ fn_in.a > 0 /\ fn_in.a < Scale \div 2 /\ fn_out # <<>>
    /\ fn_out[1] > 0

\* C7: with N >= 2 frames and span S the lens x is -S/2 at step 0, +S/2 at
\* step N-1, grows by S/(N-1) per step, and the lens y is 0 at every step.
Thm7_LensTransit ==
    (fn_in.f = "lens" /\ fn_out # <<>>) =>
        LET N == fn_in.a
            S == fn_in.b
            x(i) == fn_out[i + 1][1]
        IN  /\ Len(fn_out) = N
            /\ 2 * x(0).num = -S * x(0).den
            /\ 2 * x(N - 1).num = S * x(N - 1).den
            /\ \A i \in 0..(N - 2) :
                  (x(i + 1).num * x(i).den - x(i).num * x(i + 1).den) * (N - 1)
                      = S * x(i).den * x(i + 1).den
            /\ \A i \in 0..(N - 1) : fn_out[i + 1][2] = 0

Wit7_ThreeSteps == fn_in.f = "lens" /\ fn_in.a >= 3 /\ Len(fn_out) = fn_in.a

\* C8 (as stated): after a reset has been handled the stored light curve holds
\* exactly the samples accumulated when the reset took effect.
Claim8_Original == pc = "L230" => light_curve_data = accumulated

\* C8 (amended): a reset never takes effect inside the frame loop of a run, and
\* once handled it leaves the stored light curve empty, animation_created
\* False and animation_path_base64 None.
Thm8_ResetDiscards ==
    [][ /\ (pc' = "L227" /\ pc # "L227") => pc \notin FrameLoopPcs
        /\ pc' = "L230" =>
              /\ light_curve_data' = EmptyCurve
              /\ animation_created' = FALSE
              /\ animation_path_base64' = None ]_vars

Wit8_ResetDroppedSamples ==
    pc = "L230" /\ Len(accumulated.time) > 0 /\ light_curve_data = EmptyCurve

\* C9: every sample appended for step i is calculate_magnification(|lens_x(i)|)
\* plus the companion contribution at the distance from the companion (lens
\* position plus planet_distance * (cos, sin)(i * orbit speed)) to the origin,
\* and so is never below the base magnification of that step.
Thm9_SampleIsBasePlusCompanion ==
    /\ Len(lc_magnifications) = Len(lc_times)
    /\ \A k \in 1..Len(lc_times) :
          LET i == lc_times[k]
              lx == lens_x_current(i, args.sim_total_frames, args.sim_duration_units)
              base == calculate_magnification(ToFixed(RatAbs(lx)))
              ang == i * args.planet_orbit_speed_rad_per_frame
              cx == ToFixed(lx) + MulFixed(args.planet_distance_re, np_cos(ang))
              cy == MulFixed(args.planet_distance_re, np_sin(ang))
              d == Isqrt(cx * cx + cy * cy)
          IN  /\ lc_magnifications[k] = base + additional_magnification(d)
              /\ lc_magnifications[k] >= base

Wit9_CompanionContributes ==
    \E k \in 1..Len(lc_magnifications) :
        lc_magnifications[k] >
            calculate_magnification(ToFixed(RatAbs(
                lens_x_current(lc_times[k], args.sim_total_frames,
                               args.sim_duration_units))))

\* C10: in every reachable session state animation_created implies that
\* animation_path_base64 is set.
Thm10_CreatedImpliesPath == animation_created => animation_path_base64 # None

Wit10_ShownAfterRerun ==
    display_gate /\ pc = "idle" /\ last_done # NoRun /\ Cardinality(cache) >= 2

====
